---- MODULE Spec2Model ----
(***************************************************************************)
(* Anisotropic Network Model (src/src/enm.rs).                             *)
(*                                                                         *)
(* Two operations are modelled:                                            *)
(*   build_hessian_matrix    (specification Spec)                          *)
(*   calculate_normal_modes  (specification SpecModes)                     *)
(*                                                                         *)
(* f64 is modelled as binary floating point with round-to-nearest-even, a  *)
(* significand of Prec bits and an unbounded exponent, with NaN and the    *)
(* two infinities.  Every arithmetic operation of the source is one        *)
(* correctly rounded operation of the model, in the source's order.        *)
(***************************************************************************)
EXTENDS Integers, Sequences, FiniteSets, TLC

(* ------------------------------ bounds --------------------------------- *)
\* bits of significand of the modelled floating-point format
Prec == 5
\* largest number of atoms handed to build_hessian_matrix
MaxAtoms == 3

(* ------------------------- floating point ------------------------------ *)
RECURSIVE Pow2(_)
Pow2(n) == IF n <= 0 THEN 1 ELSE 2 * Pow2(n - 1)

Abs(x) == IF x < 0 THEN -x ELSE x
Sgn(x) == IF x < 0 THEN -1 ELSE IF x = 0 THEN 0 ELSE 1

\* a finite value is m * 2^e with m odd (or m = 0, e = 0)
NaN == [k |-> "nan", m |-> 0, e |-> 0]
PInf == [k |-> "inf", m |-> 1, e |-> 0]
NInf == [k |-> "inf", m |-> -1, e |-> 0]
Zero == [k |-> "fin", m |-> 0, e |-> 0]
IsNaN(x) == x.k = "nan"
IsInf(x) == x.k = "inf"
IsFin(x) == x.k = "fin"
InfOf(s) == IF s < 0 THEN NInf ELSE PInf

RECURSIVE Norm(_, _)
Norm(m, e) ==
    IF m = 0 THEN Zero
    ELSE IF m % 2 = 0 THEN Norm(m \div 2, e + 1)
    ELSE [k |-> "fin", m |-> m, e |-> e]

\* number of right shifts that bring a (> 0) below 2^Prec
RECURSIVE Excess(_)
Excess(a) == IF a < Pow2(Prec) THEN 0 ELSE 1 + Excess(a \div 2)

\* round the integer m * 2^e to Prec significant bits, ties to even
Rnd(m, e) ==
    LET a == Abs(m)
        s == Excess(a)
        q == a \div Pow2(s)
        r == a % Pow2(s)
        up == s > 0 /\ (2 * r > Pow2(s) \/ (2 * r = Pow2(s) /\ q % 2 = 1))
    IN  Norm(Sgn(m) * (IF up THEN q + 1 ELSE q), e + s)

\* round (n / d) * 2^e, n >= 0, d > 0: quotient bits and a sticky bit
RECURSIVE RndRat(_, _, _, _)
RndRat(sg, n, d, e) ==
    IF n = 0 THEN Zero
    ELSE IF n \div d < Pow2(Prec + 1) THEN RndRat(sg, 2 * n, d, e - 1)
    ELSE Rnd(sg * (2 * (n \div d) + (IF n % d = 0 THEN 0 ELSE 1)), e - 1)

\* a decimal literal num / den of the source, as the compiler rounds it
Lit(num, den) == RndRat(Sgn(num), Abs(num), den, 0)
FromInt(n) == Rnd(n, 0)

FNeg(x) == IF IsNaN(x) THEN NaN ELSE [x EXCEPT !.m = -x.m]

FMul(x, y) ==
    IF IsNaN(x) \/ IsNaN(y) THEN NaN
    ELSE IF IsInf(x) \/ IsInf(y)
         THEN IF x.m = 0 \/ y.m = 0 THEN NaN ELSE InfOf(Sgn(x.m) * Sgn(y.m))
    ELSE Rnd(x.m * y.m, x.e + y.e)

FDiv(x, y) ==
    IF IsNaN(x) \/ IsNaN(y) THEN NaN
    ELSE IF IsInf(x) THEN (IF IsInf(y) THEN NaN
                           ELSE InfOf(Sgn(x.m) * (IF y.m < 0 THEN -1 ELSE 1)))
    ELSE IF IsInf(y) THEN Zero
    ELSE IF y.m = 0 THEN (IF x.m = 0 THEN NaN ELSE InfOf(Sgn(x.m)))
    ELSE RndRat(Sgn(x.m) * Sgn(y.m), Abs(x.m), Abs(y.m), x.e - y.e)

\* exact sum of two finite values whose exponents are close, then rounded;
\* a term below a quarter of the other's last place does not change the sum
FinAdd(x, y) ==
    IF x.m = 0 THEN y
    ELSE IF y.m = 0 THEN x
    ELSE IF x.e - y.e > 2 * Prec + 2 THEN x
    ELSE IF y.e - x.e > 2 * Prec + 2 THEN y
    ELSE IF x.e >= y.e THEN Rnd(x.m * Pow2(x.e - y.e) + y.m, y.e)
    ELSE Rnd(x.m + y.m * Pow2(y.e - x.e), x.e)

FAdd(x, y) ==
    IF IsNaN(x) \/ IsNaN(y) THEN NaN
    ELSE IF IsInf(x) THEN (IF IsInf(y) /\ y.m # x.m THEN NaN ELSE x)
    ELSE IF IsInf(y) THEN y
    ELSE FinAdd(x, y)

FSub(x, y) == FAdd(x, FNeg(y))

\* x < y on finite values
FinLt(x, y) ==
    IF x.m = 0 \/ y.m = 0 \/ Sgn(x.m) # Sgn(y.m) THEN x.m < y.m
    ELSE IF x.e - y.e > 2 * Prec + 2 THEN x.m < 0
    ELSE IF y.e - x.e > 2 * Prec + 2 THEN y.m > 0
    ELSE IF x.e >= y.e THEN x.m * Pow2(x.e - y.e) < y.m
    ELSE x.m < y.m * Pow2(y.e - x.e)

\* the < of f64: false whenever an operand is NaN
FLt(x, y) ==
    IF IsNaN(x) \/ IsNaN(y) THEN FALSE
    ELSE IF IsInf(x) THEN x.m < 0 /\ ~(IsInf(y) /\ y.m < 0)
    ELSE IF IsInf(y) THEN y.m > 0
    ELSE FinLt(x, y)

\* integer square root: the largest s in lo..hi with s * s <= n, by bisection
RECURSIVE ISqrtIn(_, _, _)
ISqrtIn(n, lo, hi) ==
    IF lo >= hi THEN lo
    ELSE LET mid == (lo + hi + 1) \div 2
         IN  IF mid * mid <= n THEN ISqrtIn(n, mid, hi) ELSE ISqrtIn(n, lo, mid - 1)
ISqrt(n) == ISqrtIn(n, 0, IF n < 4096 THEN 64 ELSE 32768)

\* f64::sqrt, correctly rounded; NaN for a negative operand
RECURSIVE SqrtScaled(_, _)
SqrtScaled(m, e) ==
    IF m < Pow2(2 * Prec + 2) THEN SqrtScaled(4 * m, e - 2)
    ELSE LET s == ISqrt(m)
         IN  Rnd(2 * s + (IF s * s = m THEN 0 ELSE 1), (e \div 2) - 1)

FSqrt(x) ==
    IF IsNaN(x) THEN NaN
    ELSE IF IsInf(x) THEN (IF x.m > 0 THEN PInf ELSE NaN)
    ELSE IF x.m < 0 THEN NaN
    ELSE IF x.m = 0 THEN Zero
    ELSE IF x.e % 2 = 0 THEN SqrtScaled(x.m, x.e)
    ELSE SqrtScaled(2 * x.m, x.e - 1)

(* --------------------------- input domains ----------------------------- *)
\* atom positions, as integer triples
Points == {<<0, 0, 0>>, <<1, 0, 0>>, <<2, 0, 0>>, <<1, 3, 5>>}
\* values of the cutoff and gamma fields
Cutoffs == {2, 15}
Gammas == {1, 3}
\* per-atom masses a caller supplies
MassVals == {1, 4}

Vec(p) == [a \in 0..2 |-> FromInt(p[a + 1])]
CoordLists == UNION {[0..(n - 1) -> {Vec(p) : p \in Points}] : n \in 0..MaxAtoms}
Size(f) == Cardinality(DOMAIN f)

\* Option<&[f64]>: None, a slice of the right length (uniform or alternating
\* masses), or one of a wrong length
None == [some |-> FALSE, v |-> <<>>]
Some(v) == [some |-> TRUE, v |-> v]
MassArgs(n) ==
    {None}
    \cup {Some([a \in 0..(n - 1) |-> FromInt(x)]) : x \in MassVals}
    \cup {Some([a \in 0..(n - 1) |-> FromInt(IF a % 2 = 0 THEN 4 ELSE 1)])}
    \cup {Some([a \in 0..n |-> FromInt(1)])}
    \cup (IF n > 0 THEN {Some([a \in 0..(n - 2) |-> FromInt(1)])} ELSE {})

(* ------------------------------- state --------------------------------- *)
VARIABLES
    pc,             \* position of the running call
    cutoff,         \* self.cutoff
    gamma,          \* self.gamma
    mass_weighted,  \* self.mass_weighted
    coords,         \* argument coords
    masses,         \* argument masses
    hessian,        \* the DMatrix being built / handed to the mode solver
    i, j,           \* loop counters of build_hessian_matrix
    evalues,        \* eigen.eigenvalues
    vectors,        \* eigen.eigenvectors
    indices,        \* the sort permutation
    evalues_,       \* sorted (and converted) eigenvalues
    vectors_,       \* sorted eigenvector columns
    modes           \* the returned Vec<(f64, Vec<f64>)>

self_vars == <<cutoff, gamma, mass_weighted>>
build_vars == <<coords, masses, i, j>>
mode_vars == <<evalues, vectors, indices, evalues_, vectors_, modes>>
vars == <<pc, cutoff, gamma, mass_weighted, coords, masses, hessian, i, j,
          evalues, vectors, indices, evalues_, vectors_, modes>>

(* ------------------------ build_hessian_matrix ------------------------- *)
\* DMatrix::from_vec(3 * n, 3 * n, vec![0.0; ..])
ZeroMatrix(d) == [rc \in (0..(d - 1)) \X (0..(d - 1)) |-> Zero]

\* rj - ri
Diff(rj, ri) == [a \in 0..2 |-> FSub(rj[a], ri[a])]

\* Vector3::norm_squared
NormSquared(r) == FAdd(FAdd(FMul(r[0], r[0]), FMul(r[1], r[1])), FMul(r[2], r[2]))

\* self.cutoff.powi(2)
Cutoff2(c) == FMul(c, c)

\* -gamma / dist2 * rij * rij.transpose(), evaluated left to right
SuperElement(g, rij) ==
    LET kk == FDiv(FNeg(g), NormSquared(rij))
        v == [a \in 0..2 |-> FMul(kk, rij[a])]
    IN  [ab \in (0..2) \X (0..2) |-> FMul(v[ab[1]], rij[ab[2]])]

\* dist2 < cutoff2
InRange(ci, cj, c) == FLt(NormSquared(Diff(cj, ci)), Cutoff2(c))

\* the four block updates of one pair under the cutoff
WriteBlocks(h, ii, jj, S) ==
    [rc \in DOMAIN h |->
        LET r == rc[1]
            c == rc[2]
            ab == <<r % 3, c % 3>>
        IN  IF r \div 3 = ii /\ c \div 3 = jj THEN S[ab]
            ELSE IF r \div 3 = jj /\ c \div 3 = ii THEN S[ab]
            ELSE IF r \div 3 = ii /\ c \div 3 = ii THEN FSub(h[rc], S[ab])
            ELSE IF r \div 3 = jj /\ c \div 3 = jj THEN FSub(h[rc], S[ab])
            ELSE h[rc]]

\* masses.map(|x| x[k]).unwrap_or(12.011)
MassOf(ms, k) == IF ms.some THEN ms.v[k] ELSE Lit(12011, 1000)

\* mi.sqrt() * mj.sqrt()
MijSqrt(ms, ii, jj) == FMul(FSqrt(MassOf(ms, ii)), FSqrt(MassOf(ms, jj)))

\* hessian[(i, j)] /= mij_sqrt; hessian[(j, i)] /= mij_sqrt
MassWeight(h, ii, jj, f) ==
    LET h1 == [h EXCEPT ![<<ii, jj>>] = FDiv(@, f)]
    IN  [h1 EXCEPT ![<<jj, ii>>] = FDiv(@, f)]

\* the body of the inner loop for the pair (ii, jj)
PairBody(h, ii, jj) ==
    LET rij == Diff(coords[jj], coords[ii])
        h1 == IF InRange(coords[ii], coords[jj], cutoff)
              THEN WriteBlocks(h, ii, jj, SuperElement(gamma, rij))
              ELSE h
    IN  IF mass_weighted THEN MassWeight(h1, ii, jj, MijSqrt(masses, ii, jj)) ELSE h1

NoModes == <<>>

Init ==
    /\ pc = "build"
    /\ cutoff \in {FromInt(c) : c \in Cutoffs}
    /\ gamma \in {FromInt(g) : g \in Gammas}
    /\ mass_weighted \in BOOLEAN
    /\ coords \in CoordLists
    /\ masses \in MassArgs(Size(coords))
    /\ hessian = <<>>
    /\ i = 0
    /\ j = 0
    /\ evalues = <<>>
    /\ vectors = <<>>
    /\ indices = <<>>
    /\ evalues_ = <<>>
    /\ vectors_ = <<>>
    /\ modes = NoModes

\* lines 63-73: the length assertion and the allocation
BuildBegin ==
    /\ pc = "build"
    /\ IF masses.some /\ Size(masses.v) # Size(coords)
       THEN pc' = "panicked" /\ UNCHANGED <<hessian, i, j>>
       ELSE /\ pc' = "loop"
            /\ hessian' = ZeroMatrix(3 * Size(coords))
            /\ i' = 1
            /\ j' = 0
    /\ UNCHANGED <<self_vars, coords, masses, mode_vars>>

\* lines 74-101: one iteration of `for i in 0..n { for j in 0..i {..} }`
BuildPair ==
    /\ pc = "loop"
    /\ i < Size(coords)
    /\ hessian' = PairBody(hessian, i, j)
    /\ IF j + 1 < i THEN i' = i /\ j' = j + 1 ELSE i' = i + 1 /\ j' = 0
    /\ UNCHANGED <<pc, self_vars, coords, masses, mode_vars>>

\* line 103
BuildReturn ==
    /\ pc = "loop"
    /\ i >= Size(coords)
    /\ pc' = "returned"
    /\ UNCHANGED <<self_vars, build_vars, hessian, mode_vars>>

Next == BuildBegin \/ BuildPair \/ BuildReturn

Spec == Init /\ [][Next]_vars

(* ------------------- properties of build_hessian_matrix ---------------- *)
N == Size(coords)
Atoms == 0..(N - 1)
B33 == (0..2) \X (0..2)
Entry(a, b, xy) == hessian[<<3 * a + xy[1], 3 * b + xy[2]>>]

\* the super-element the loop computes for the unordered pair {a, b}
PairSuper(a, b) ==
    IF b < a THEN SuperElement(gamma, Diff(coords[b], coords[a]))
    ELSE SuperElement(gamma, Diff(coords[a], coords[b]))
PairInRange(a, b) ==
    IF b < a THEN InRange(coords[a], coords[b], cutoff)
    ELSE InRange(coords[b], coords[a], cutoff)

\* C1: the returned matrix is exactly symmetric, entry (r,c) = entry (c,r)
HessianSymmetric ==
    pc = "returned" =>
        \A rc \in DOMAIN hessian : hessian[rc] = hessian[<<rc[2], rc[1]>>]

\* sum over b = 0..upto, b # a, of entry xy of the off-diagonal block (a, b)
RECURSIVE RowSum(_, _, _)
RowSum(a, xy, upto) ==
    IF upto < 0 THEN Zero
    ELSE IF upto = a THEN RowSum(a, xy, upto - 1)
    ELSE FAdd(RowSum(a, xy, upto - 1), Entry(a, upto, xy))

\* C2: for every atom the off-diagonal blocks of its row sum to the negated
\* diagonal block
ZeroRowSum ==
    pc = "returned" =>
        \A a \in Atoms : \A xy \in B33 :
            RowSum(a, xy, N - 1) = FNeg(Entry(a, a, xy))

MassesFit == masses.some => Size(masses.v) = N

\* C3: a matrix is returned only for N >= 2 and a mass list of length N
ReturnsOnlyValid == pc = "returned" => (N >= 2 /\ MassesFit)

\* sum over the in-range neighbours b = 0..upto of atom a of the (optionally
\* mass-divided) super-element entry xy
RECURSIVE NeighbourSum(_, _, _, _)
NeighbourSum(a, xy, upto, weighted) ==
    IF upto < 0 THEN Zero
    ELSE IF upto = a \/ ~PairInRange(a, upto) THEN NeighbourSum(a, xy, upto - 1, weighted)
    ELSE FAdd(NeighbourSum(a, xy, upto - 1, weighted),
              IF weighted THEN FDiv(PairSuper(a, upto)[xy], MijSqrt(masses, a, upto))
              ELSE PairSuper(a, upto)[xy])

\* C6: with mass_weighted every entry of the blocks of a pair under the cutoff
\* is the super-element divided by the pair's mass factor, and the diagonal
\* blocks accumulate the same divided contributions
MassWeightedBlocks ==
    (pc = "returned" /\ mass_weighted) =>
        /\ \A a \in Atoms : \A b \in Atoms \ {a} : PairInRange(a, b) =>
              \A xy \in B33 :
                  Entry(a, b, xy) = FDiv(PairSuper(a, b)[xy], MijSqrt(masses, a, b))
        /\ \A a \in Atoms : \A xy \in B33 :
              Entry(a, a, xy) = FNeg(NeighbourSum(a, xy, N - 1, TRUE))

\* C7: a pair at or beyond the cutoff leaves its two blocks zero, and each
\* diagonal block is the negated sum of the super-elements of the pairs
\* under the cutoff only
CutoffExclusion ==
    pc = "returned" =>
        /\ \A a \in Atoms : \A b \in Atoms \ {a} : ~PairInRange(a, b) =>
              \A xy \in B33 : Entry(a, b, xy) = Zero
        /\ \A a \in Atoms : \A xy \in B33 :
              Entry(a, a, xy) = FNeg(NeighbourSum(a, xy, N - 1, FALSE))

\* sanity companions, restricted to mass_weighted = false
ZeroRowSumUnweighted == mass_weighted \/ ZeroRowSum
CutoffExclusionUnweighted == mass_weighted \/ CutoffExclusion
OffDiagonalZeroBeyondCutoff ==
    pc = "returned" =>
        \A a \in Atoms : \A b \in Atoms \ {a} : ~PairInRange(a, b) =>
              \A xy \in B33 : Entry(a, b, xy) = Zero

(* ----------------------- calculate_normal_modes ------------------------ *)
\* largest number of atoms of a Hessian handed to calculate_normal_modes
MaxModeAtoms == 3
\* largest number of eigenvalues of one decomposition that differ from the rest
MaxOdd == 1

\* eigenvalues a decomposition may report
EigVals == {FromInt(-1), FromInt(1), FromInt(4), NaN}

\* number of rows of a square matrix
Dim(h) == ISqrt(Cardinality(DOMAIN h))

\* Hessians a caller hands over: a symmetric one and one that is not
HessianInputs ==
    UNION {{[rc \in (0..(3 * n - 1)) \X (0..(3 * n - 1)) |->
                IF rc[1] = rc[2] THEN FromInt(1)
                ELSE IF rc = <<0, 1>> THEN FromInt(u)
                ELSE Zero] : u \in {0, 1}} : n \in 1..MaxModeAtoms}

\* SymmetricEigen: d eigenvalues and a d x d matrix whose columns are the
\* eigenvectors; the values are the library's, any of the bounded choices.
\* The components of the eigenvectors are only copied, never computed with,
\* and are written as the integers 0 and 1
OddSets(d) == {T \in SUBSET (0..(d - 1)) : Cardinality(T) <= MaxOdd}
Spectrum(d, base, S, g) == [x \in 0..(d - 1) |-> IF x \in S THEN g[x] ELSE base]
EigenBases(d) ==
    {[rc \in (0..(d - 1)) \X (0..(d - 1)) |->
        IF rc[1] = (rc[2] + sh) % d THEN 1 ELSE 0] : sh \in {1}}

\* OrderedFloat's Ord: numeric order, NaN equal to itself and above the rest
OLt(x, y) == IF IsNaN(x) THEN FALSE ELSE IF IsNaN(y) THEN TRUE ELSE FLt(x, y)
OLe(x, y) == ~OLt(y, x)

\* stable insertion of index x into a list of indices sorted by key
RECURSIVE InsertByKey(_, _, _)
InsertByKey(ev, sorted, x) ==
    IF sorted = <<>> THEN <<x>>
    ELSE IF OLt(ev[x], ev[Head(sorted)]) THEN <<x>> \o sorted
    ELSE <<Head(sorted)>> \o InsertByKey(ev, Tail(sorted), x)

\* .enumerate().sorted_by_key(|x| OrderedFloat(*x.1)).map(|x| x.0)
RECURSIVE SortPrefix(_, _)
SortPrefix(ev, upto) ==
    IF upto < 0 THEN <<>>
    ELSE InsertByKey(ev, SortPrefix(ev, upto - 1), upto)
SortedIndices(ev) == SortPrefix(ev, Size(ev) - 1)

\* a conversion applied per mode: only where the square root is a number
PushedValueWhereDefined(x, mw) ==
    IF mw /\ ~IsNaN(FSqrt(x)) THEN FMul(FSqrt(x), Lit(130279, 100)) ELSE x

\* evalues[i].sqrt() * 1302.79 when mass_weighted, evalues[i] otherwise
PushedValue(x, mw) == IF mw THEN FMul(FSqrt(x), Lit(130279, 100)) ELSE x

\* a row taken where the column is meant
RowAsColumn(m, c) == LET d == Dim(m) IN [r \in 1..d |-> m[<<c, r - 1>>]]

\* vectors.column(i).as_slice().to_owned()
Column(m, c) == LET d == Dim(m) IN [r \in 1..d |-> m[<<r - 1, c>>]]

\* a truncation that drops five entries instead of six
ZipSkipFive(es, vs) ==
    LET n == IF Len(es) < Len(vs) THEN Len(es) ELSE Len(vs)
    IN  [x \in 1..(IF n > 5 THEN n - 5 ELSE 0) |-> <<es[x + 5], vs[x + 5]>>]

\* evalues_.into_iter().zip(vectors_).skip(6).collect_vec()
ZipSkip(es, vs) ==
    LET n == IF Len(es) < Len(vs) THEN Len(es) ELSE Len(vs)
    IN  [x \in 1..(IF n > 6 THEN n - 6 ELSE 0) |-> <<es[x + 6], vs[x + 6]>>]

InitModes ==
    /\ pc = "modes"
    /\ cutoff = FromInt(15)
    /\ gamma = FromInt(1)
    /\ mass_weighted \in BOOLEAN
    /\ coords = <<>>
    /\ masses = None
    /\ hessian \in HessianInputs
    /\ i = 0
    /\ j = 0
    /\ evalues = <<>>
    /\ vectors = <<>>
    /\ indices = <<>>
    /\ evalues_ = <<>>
    /\ vectors_ = <<>>
    /\ modes = NoModes

\* lines 111-113
SymmetricEigen ==
    /\ pc = "modes"
    /\ \E base \in EigVals : \E S \in OddSets(Dim(hessian)) : \E g \in [S -> EigVals] :
          evalues' = Spectrum(Dim(hessian), base, S, g)
    /\ vectors' \in EigenBases(Dim(hessian))
    /\ pc' = "sort"
    /\ UNCHANGED <<self_vars, build_vars, hessian, indices, evalues_, vectors_, modes>>

\* lines 116-121
SortEigenvalues ==
    /\ pc = "sort"
    /\ indices' = SortedIndices(evalues)
    /\ pc' = "push"
    /\ UNCHANGED <<self_vars, build_vars, hessian, evalues, vectors, evalues_, vectors_, modes>>

\* lines 124-134: the loop `for &i in indices.iter()`, one push per index
PushModes ==
    /\ pc = "push"
    /\ evalues_' = [x \in 1..Len(indices) |->
                        PushedValue(evalues[indices[x]], mass_weighted)]
    /\ vectors_' = [x \in 1..Len(indices) |-> Column(vectors, indices[x])]
    /\ pc' = "collect"
    /\ UNCHANGED <<self_vars, build_vars, hessian, evalues, vectors, indices, modes>>

\* line 137
CollectModes ==
    /\ pc = "collect"
    /\ modes' = ZipSkip(evalues_, vectors_)
    /\ pc' = "done"
    /\ UNCHANGED <<self_vars, build_vars, hessian, evalues, vectors, indices, evalues_, vectors_>>

NextModes == SymmetricEigen \/ SortEigenvalues \/ PushModes \/ CollectModes

SpecModes == InitModes /\ [][NextModes]_vars

(* ------------------ properties of calculate_normal_modes --------------- *)
D == Dim(hessian)

\* C4: a 3N x 3N Hessian with N >= 3 yields exactly 3N - 6 modes, each with
\* an eigenvector of 3N components
ModeCount ==
    LET d == D
    IN  (pc = "done" /\ d % 3 = 0 /\ d >= 9) =>
            /\ Len(modes) = d - 6
            /\ \A x \in 1..Len(modes) : Len(modes[x][2]) = d
ModeCountWitness ==
    pc = "done" /\ D = 9 /\ mass_weighted /\ Len(modes) = 3 /\ Len(modes[3][2]) = 9

\* C5: the returned values are non-decreasing (NaN counted as the largest)
NonDecreasing ==
    pc = "done" =>
        \A x \in 1..(Len(modes) - 1) : OLe(modes[x][1], modes[x + 1][1])
NonDecreasingUnweighted == mass_weighted \/ NonDecreasing

\* C8: modes are returned only for a symmetric Hessian
RejectsAsymmetric ==
    pc = "done" =>
        \A rc \in DOMAIN hessian : hessian[rc] = hessian[<<rc[2], rc[1]>>]

\* position of eigenvalue x in ascending order, ties by original index
Rank(x) ==
    Cardinality({y \in DOMAIN evalues :
        OLt(evalues[y], evalues[x]) \/ (~OLt(evalues[x], evalues[y]) /\ y < x)})

\* C9: output mode k is the eigenvalue of sorted position k + 6 together with
\* its own eigenvector column; sorted positions 0..5 are the ones discarded
\* (every eigenvalue of rank >= 6 is found at output position rank - 6, the
\* output has no other entries, and the ranks are a permutation)
ModePairing ==
    LET d == D
    IN  pc = "done" =>
            /\ Len(modes) = (IF d > 6 THEN d - 6 ELSE 0)
            /\ \A y \in DOMAIN evalues :
                  LET x == Rank(y) - 5
                  IN  x >= 1 =>
                      /\ modes[x][1] = (IF mass_weighted
                                        THEN FMul(FSqrt(evalues[y]), Lit(130279, 100))
                                        ELSE evalues[y])
                      /\ modes[x][2] = [r \in 1..d |-> vectors[<<r - 1, y>>]]
ModePairingWitness ==
    /\ pc = "done"
    /\ Len(modes) = 3
    /\ ~mass_weighted
    /\ \E x \in 1..3 : \E y \in 1..3 :
          modes[x][1] # modes[y][1] /\ modes[x][2] # modes[y][2]
    /\ \E x \in 1..Len(indices) : indices[x] > indices[Len(indices)]

\* C10: the conversion is the same for every retained mode: sqrt(raw) * 1302.79
\* when mass_weighted, the raw eigenvalue otherwise; the eigenvectors do not
\* depend on mass_weighted
UniformConversion ==
    LET d == D
    IN  pc = "done" =>
            \A x \in 1..Len(modes) :
                LET raw == evalues[indices[x + 6]]
                IN  /\ mass_weighted =>
                          modes[x][1] = FMul(FSqrt(raw), Lit(130279, 100))
                    /\ ~mass_weighted => modes[x][1] = raw
                    /\ modes[x][2] = [r \in 1..d |-> vectors[<<r - 1, indices[x + 6]>>]]
UniformConversionWitness ==
    /\ pc = "done"
    /\ mass_weighted
    /\ \E x \in 1..Len(modes) : \E y \in 1..Len(modes) :
          /\ evalues[indices[x + 6]] = FromInt(-1) /\ IsNaN(modes[x][1])
          /\ evalues[indices[y + 6]] = FromInt(4)
          /\ modes[y][1] = FMul(FromInt(2), Lit(130279, 100))

====
